---- MODULE Spec2Model ----
(***************************************************************************)
(* A model of the analytical core of f1_olap: the corner-speed analysis of *)
(* corner_speed.py, the slice / dice / drill-down / roll-up / pivot        *)
(* queries of olap.py, and the rows load.py writes into the store they     *)
(* read.  The store is a snapshot: it is chosen in Init and never changes. *)
(***************************************************************************)
EXTENDS Integers, Sequences, FiniteSets, TLC

VARIABLES
    db,                  \* the store: one set of rows per table
    pc,                  \* position inside get_session_corner_analysis
    conn,                \* its sqlite3 connection: "none", "open", "closed"
    args,                \* its arguments (year, event, session_type)
    session,             \* the row fetchone() returned for the session query
    driver_ids,          \* the dict `drivers`: abbrevation -> id
    fastest,             \* ver_lap / nor_lap: the rows fetchone() returned
    corner_rows,         \* `corners`: the fetched rows, in the query's order
    telem,               \* ver_telemetry / nor_telemetry: the two DataFrames
    k,                   \* index of the next corner the for-loop visits
    avg_corner_speeds,   \* the dict built by the loop: number -> per driver
    overall_avg_speeds,  \* the baseline dict
    error,               \* the message of the ValueError raised, "" if none
    out,                 \* what the last F1OLAPAnalysis call returned
    rpc,                 \* position inside the script team_rank.py
    teams_left,          \* rows of `teams` the outer loop has not visited
    team,                \* the row (tid, name) the outer loop is at
    races_left,          \* rows of `races` the inner loop has not visited
    rank,                \* the script's variable rank
    rank_list,           \* the rows the last rank query returned
    best_ranks           \* the dict best_ranks: team name -> rank

script == <<rpc, teams_left, team, races_left, rank, rank_list, best_ranks>>

vars == <<db, pc, conn, args, session, driver_ids, fastest, corner_rows,
          telem, k, avg_corner_speeds, overall_avg_speeds, error, out,
          script>>

frame == <<session, driver_ids, fastest, corner_rows, telem, k,
           avg_corner_speeds, overall_avg_speeds>>

-----------------------------------------------------------------------------
(* SQL NULL / Python None / pandas NaN in a nullable numeric column: a     *)
(* value is <<>> (NULL) or <<n>>.  Text is a non-empty tuple, so a NULL    *)
(* text column is <<>> as well.                                            *)
NULL == <<>>

Some(n) == <<n>>

IsNull(x) == x = <<>>

Val(x) == x[1]

RECURSIVE SumSeq(_)
SumSeq(s) == IF s = <<>> THEN 0 ELSE Head(s) + SumSeq(Tail(s))

(* Lexicographic order on tuples of integers; a proper prefix sorts first. *)
(* This is how SQLite's BINARY collation orders the fixed-width,           *)
(* zero-padded text that isoformat() and str(Timedelta) produce.           *)
RECURSIVE TextLess(_, _)
TextLess(a, b) ==
    IF b = <<>> THEN FALSE
    ELSE IF a = <<>> THEN TRUE
    ELSE IF Head(a) # Head(b) THEN Head(a) < Head(b)
    ELSE TextLess(Tail(a), Tail(b))

(* ORDER BY key ASC on a text or NULL key: NULL sorts first. *)
TextLeq(a, b) == a = b \/ TextLess(a, b)

(* ORDER BY key ASC on a nullable number: NULL sorts first. *)
NumLeq(a, b) == IsNull(a) \/ (~IsNull(b) /\ Val(a) <= Val(b))

(* Every order in which a query may return the rows S under an ORDER BY    *)
(* whose "r1 may come before r2" pairs are MayPrecede: rows with equal     *)
(* keys come in an order SQL leaves open.                                  *)
Orderings(S, MayPrecede) ==
    LET n == Cardinality(S) IN
    { s \in [1..n -> S] :
        /\ \A i, j \in 1..n : i # j => s[i] # s[j]
        /\ \A i \in 1..n : i < n => <<s[i], s[i + 1]>> \in MayPrecede }

-----------------------------------------------------------------------------
(* Text columns that are matched with LIKE are tuples of characters.       *)
UpperCase == <<"A","B","C","D","E","F","G","H","I","J","K","L","M",
               "N","O","P","Q","R","S","T","U","V","W","X","Y","Z">>

LowerCase == <<"a","b","c","d","e","f","g","h","i","j","k","l","m",
               "n","o","p","q","r","s","t","u","v","w","x","y","z">>

Lower(c) ==
    IF \E i \in 1..26 : UpperCase[i] = c
    THEN LowerCase[CHOOSE i \in 1..26 : UpperCase[i] = c]
    ELSE c

(* text LIKE '%pat%': SQLite's LIKE ignores the case of ASCII letters.     *)
Like(pat, text) ==
    \E i \in 0..(Len(text) - Len(pat)) :
        \A j \in 1..Len(pat) : Lower(text[i + j]) = Lower(pat[j])

Race == <<"R","a","c","e">>

Practice1 == <<"P","r","a","c","t","i","c","e"," ","1">>

Qualifying == <<"Q","u","a","l","i","f","y","i","n","g">>

Sprint == <<"S","p","r","i","n","t">>

Monaco == <<"M","o","n","a","c","o">>

Monza == <<"M","o","n","z","a">>

(* strftime('%Y', s.date): the year field of the ISO text, NULL for NULL.  *)
(* A date is the tuple <<year, month, day>> of its zero-padded fields.     *)
YearOf(date) == IF IsNull(date) THEN NULL ELSE Some(date[1])

-----------------------------------------------------------------------------
(* Values a dict entry or a DataFrame cell can hold: Python None, pandas   *)
(* NaN, or the mean sum/n of n > 0 numbers (kept as the pair).             *)
None == [kind |-> "None"]

NaN == [kind |-> "NaN"]

Mean(sum, n) == [kind |-> "mean", sum |-> sum, n |-> n]

(* Series.mean() of a speed column: NaN entries are skipped; NaN when no   *)
(* entry is left.                                                          *)
SeriesMean(rows) ==
    LET present == SelectSeq(rows, LAMBDA r : ~IsNull(r.speed))
        speeds  == [i \in 1..Len(present) |-> Val(present[i].speed)]
    IN  IF present = <<>> THEN NaN ELSE Mean(SumSeq(speeds), Len(present))

distance_threshold == 20

(* The boolean mask of the loop: a NaN distance compares False both ways.  *)
InWindow_StrictUpper(distance, corner_dist) ==
    /\ ~IsNull(distance)
    /\ Val(distance) >= corner_dist - distance_threshold
    /\ Val(distance) < corner_dist + distance_threshold

InWindow(distance, corner_dist) ==
    /\ ~IsNull(distance)
    /\ Val(distance) >= corner_dist - distance_threshold
    /\ Val(distance) <= corner_dist + distance_threshold

Segment(frameRows, corner_dist) ==
    SelectSeq(frameRows, LAMBDA r : InWindow(r.distance, corner_dist))

SegmentMean(frameRows, corner_dist) ==
    LET seg == Segment(frameRows, corner_dist)
    IN  IF Len(seg) > 0 THEN SeriesMean(seg) ELSE None

RECURSIVE Segments(_, _)
Segments(frameRows, cs) ==
    IF cs = <<>> THEN <<>>
    ELSE Segment(frameRows, Head(cs).distance) \o Segments(frameRows, Tail(cs))

(* A baseline taken from the corner segments instead of the whole lap.     *)
OverallMean_FromSegments(frameRows) ==
    LET rows == Segments(frameRows, corner_rows)
    IN  IF Len(rows) > 0 THEN SeriesMean(rows) ELSE None

OverallMean(frameRows) ==
    IF Len(frameRows) > 0 THEN SeriesMean(frameRows) ELSE None

Compared == {"VER", "NOR"}

-----------------------------------------------------------------------------
(* get_session_corner_analysis, one action per statement group.            *)

Call(year, event, session_type) ==
    /\ pc = "idle"
    /\ out.op = "none"
    /\ conn' = "open"
    /\ args' = [year |-> year, event |-> event, session_type |-> session_type]
    /\ pc' = "find_session"
    /\ UNCHANGED <<script, db, frame, error, out>>

SessionMatches(year, event, session_type) ==
    { s \in db.sessions :
        /\ \E c \in db.circuits : c.id = s.circuit_id
        /\ YearOf(s.date) = Some(year)
        /\ Like(event, s.event_name)
        /\ Like(session_type, s.session_name) }

FindSession ==
    /\ pc = "find_session"
    /\ LET found == SessionMatches(args.year, args.event, args.session_type)
       IN  IF found = {}
           THEN /\ error' = "Session not found"
                /\ pc' = "raised"
                /\ UNCHANGED session
           ELSE /\ \E s \in found : session' = s
                /\ pc' = "find_drivers"
                /\ UNCHANGED error
    /\ UNCHANGED <<script, db, conn, args, driver_ids, fastest, corner_rows, telem, k,
                   avg_corner_speeds, overall_avg_speeds, out>>

(* The dicts {row['abbrevation']: row['id'] for row in fetchall()} can be: *)
(* a later row with the same abbrevation replaces an earlier one, and the  *)
(* rows come in an order the query leaves open.                            *)
DriverDicts ==
    LET rows == { d \in db.drivers : d.abbrevation \in Compared }
        keys == { d.abbrevation : d \in rows }
    IN  { f \in [keys -> { d.id : d \in rows }] :
            \A a \in keys : \E d \in rows : d.abbrevation = a /\ d.id = f[a] }

FindDrivers ==
    /\ pc = "find_drivers"
    /\ \E f \in DriverDicts :
          /\ driver_ids' = f
          /\ IF Cardinality(DOMAIN f) < 2
             THEN /\ error' = "Could not find both VER and NOR drivers"
                  /\ pc' = "raised"
             ELSE /\ pc' = "find_laps"
                  /\ UNCHANGED error
    /\ UNCHANGED <<script, db, conn, args, session, fastest, corner_rows, telem, k,
                   avg_corner_speeds, overall_avg_speeds, out>>

(* The rows "ORDER BY lap_time ASC LIMIT 1" can return: a row no other row *)
(* sorts strictly before.  lap_time is text or NULL, NULL sorts first.     *)
FastestLapRows_AnyDriver(session_id, driver_id) ==
    LET rows == { l \in db.laps : l.session_id = session_id }
    IN  { l \in rows : \A m \in rows : TextLeq(l.lap_time, m.lap_time) }

FastestLapRows(session_id, driver_id) ==
    LET rows == { l \in db.laps :
                    l.session_id = session_id /\ l.driver_id = driver_id }
    IN  { l \in rows : \A m \in rows : TextLeq(l.lap_time, m.lap_time) }

FindLaps ==
    /\ pc = "find_laps"
    /\ LET ver == FastestLapRows(session.id, driver_ids["VER"])
           nor == FastestLapRows(session.id, driver_ids["NOR"])
       IN  IF ver = {} \/ nor = {}
           THEN /\ error' = "Could not find fastest laps"
                /\ pc' = "raised"
                /\ UNCHANGED fastest
           ELSE /\ \E v \in ver, n \in nor :
                      fastest' = [VER |-> v, NOR |-> n]
                /\ pc' = "fetch"
                /\ UNCHANGED error
    /\ UNCHANGED <<script, db, conn, args, session, driver_ids, corner_rows, telem, k,
                   avg_corner_speeds, overall_avg_speeds, out>>

ByDistance_Unordered(rows) == rows \X rows

ByDistance(rows) ==
    { p \in rows \X rows : p[1].distance <= p[2].distance }

ByNullableDistance_Unordered(rows) == rows \X rows

ByNullableDistance(rows) ==
    { p \in rows \X rows : NumLeq(p[1].distance, p[2].distance) }

CornersOf(circuit_id) == { c \in db.corners : c.circuit_id = circuit_id }

TelemetryOf(lap_id) == { t \in db.telemetry : t.lap_id = lap_id }

Fetch ==
    /\ pc = "fetch"
    /\ LET cs == CornersOf(session.circuit_id)
       IN  \E s \in Orderings(cs, ByDistance(cs)) : corner_rows' = s
    /\ LET vt == TelemetryOf(fastest["VER"].id)
           nt == TelemetryOf(fastest["NOR"].id)
       IN  \E v \in Orderings(vt, ByNullableDistance(vt)),
              n \in Orderings(nt, ByNullableDistance(nt)) :
              telem' = [VER |-> v, NOR |-> n]
    /\ k' = 1
    /\ avg_corner_speeds' = <<>>
    /\ pc' = "corner_loop"
    /\ UNCHANGED <<script, db, conn, args, session, driver_ids, fastest,
                   overall_avg_speeds, error, out>>

CornerStep ==
    /\ pc = "corner_loop"
    /\ k <= Len(corner_rows)
    /\ LET corner == corner_rows[k]
           entry  == [d \in Compared |-> SegmentMean(telem[d], corner.distance)]
       IN  avg_corner_speeds' =
               [n \in DOMAIN avg_corner_speeds \cup {corner.number} |->
                   IF n = corner.number THEN entry ELSE avg_corner_speeds[n]]
    /\ k' = k + 1
    /\ UNCHANGED <<script, db, pc, conn, args, session, driver_ids, fastest,
                   corner_rows, telem, overall_avg_speeds, error, out>>

Return ==
    /\ pc = "corner_loop"
    /\ k > Len(corner_rows)
    /\ overall_avg_speeds' = [d \in Compared |-> OverallMean(telem[d])]
    /\ conn' = "closed"
    /\ pc' = "returned"
    /\ UNCHANGED <<script, db, args, session, driver_ids, fastest, corner_rows, telem,
                   k, avg_corner_speeds, error, out>>

CornerAnalysis ==
    \/ FindSession
    \/ FindDrivers
    \/ FindLaps
    \/ Fetch
    \/ CornerStep
    \/ Return

-----------------------------------------------------------------------------
(* Rows of the store, as load.py writes them.                               *)

SessionRow(id, date, event_name, session_name, circuit_id) ==
    [id |-> id, date |-> date, event_name |-> event_name,
     session_name |-> session_name, circuit_id |-> circuit_id]

DriverRow(id, abbrevation) == [id |-> id, abbrevation |-> abbrevation]

LapRow(id, session_id, driver_id, lap_number, lap_time) ==
    [id |-> id, session_id |-> session_id, driver_id |-> driver_id,
     lap_number |-> lap_number, lap_time |-> lap_time]

CornerRow(id, circuit_id, number, letter, distance) ==
    [id |-> id, circuit_id |-> circuit_id, number |-> number,
     letter |-> letter, distance |-> distance]

TelemetryRow(id, lap_id, distance, speed) ==
    [id |-> id, lap_id |-> lap_id, distance |-> distance, speed |-> speed]

ResultRow(id, driver_id, team_id, session_id, position, points) ==
    [id |-> id, driver_id |-> driver_id, team_id |-> team_id,
     session_id |-> session_id, position |-> position, points |-> points]

TeamRow(id, name) == [id |-> id, name |-> name]

CircuitRow(id, name) == [id |-> id, name |-> name]

(* str(lap['LapTime']) of a Timedelta of ms milliseconds (below one day):  *)
(* "0 days HH:MM:SS", followed by ".ffffff" only when the fraction is not  *)
(* zero.  The text is kept as the tuple of its fields.                     *)
FormatLapTime(ms) ==
    LET secs == ms \div 1000
        frac == (ms % 1000) * 1000
    IN  <<0, secs \div 3600, (secs \div 60) % 60, secs % 60>>
            \o (IF frac = 0 THEN <<>> ELSE <<frac>>)

EmptyStore ==
    [sessions |-> {}, circuits |-> {}, drivers |-> {}, teams |-> {},
     laps |-> {}, corners |-> {}, telemetry |-> {}, results |-> {}]

BoundedSubsets(S, n) == { T \in SUBSET S : Cardinality(T) <= n }

InitFrame ==
    /\ pc = "idle"
    /\ conn = "none"
    /\ args = <<>>
    /\ session = <<>>
    /\ driver_ids = <<>>
    /\ fastest = <<>>
    /\ corner_rows = <<>>
    /\ telem = <<>>
    /\ k = 0
    /\ avg_corner_speeds = <<>>
    /\ overall_avg_speeds = <<>>
    /\ error = ""
    /\ rpc = "idle"
    /\ teams_left = {}
    /\ team = <<>>
    /\ races_left = {}
    /\ rank = 0
    /\ rank_list = {}
    /\ best_ranks = <<>>
    /\ out = [op |-> "none"]

-----------------------------------------------------------------------------
(* F1OLAPAnalysis (olap.py).  Every method issues its queries on self.conn *)
(* and returns; `out` records the call: the method, its arguments, the     *)
(* number of queries it sent to the store, whether it raised (no method    *)
(* has a raise statement) and what it returned.  A row of                  *)
(* a returned frame carries the columns the claims read, and `rid`, the id *)
(* of the results / laps / telemetry row it was selected from (not a       *)
(* column: it keeps equal-looking rows apart).                             *)

(* results JOIN sessions JOIN drivers JOIN teams, on the three ids.        *)
ResultJoin ==
    { j \in [r : db.results, s : db.sessions, d : db.drivers, t : db.teams] :
        /\ j.r.session_id = j.s.id
        /\ j.r.driver_id = j.d.id
        /\ j.r.team_id = j.t.id }

(* ... JOIN circuits c ON s.circuit_id = c.id: c is the circuit's name,    *)
(* <<>> when the session's circuit row is missing (the join drops it).     *)
CircuitName(s) ==
    IF \E c \in db.circuits : c.id = s.circuit_id
    THEN (CHOOSE c \in db.circuits : c.id = s.circuit_id).name
    ELSE <<>>

ResultColumns(j) ==
    [rid |-> j.r.id, event_name |-> j.s.event_name,
     session_name |-> j.s.session_name, date |-> j.s.date,
     driver |-> j.d.abbrevation, team |-> j.t.name,
     position |-> j.r.position, points |-> j.r.points,
     circuit |-> CircuitName(j.s)]

(* ORDER BY s.date DESC: the later text first, NULL last.                  *)
ByDateDesc_Ascending(rows) ==
    { p \in rows \X rows : TextLeq(p[1].date, p[2].date) }

ByDateDesc(rows) ==
    { p \in rows \X rows : TextLeq(p[2].date, p[1].date) }

(* ORDER BY r.position ASC: NULL first.                                    *)
ByPositionAsc(rows) ==
    { p \in rows \X rows : NumLeq(p[1].position, p[2].position) }

Returned(op, a, rows) ==
    [op |-> op, args |-> a, queries |-> 1, raised |-> FALSE, rows |-> rows]

(* One call at a time: a method starts when no other call's result is     *)
(* held, and the caller drops the returned frame before the next call.     *)
Idle == pc = "idle" /\ out.op = "none"

Discard ==
    /\ pc = "idle"
    /\ out.op # "none"
    /\ out' = [op |-> "none"]
    /\ UNCHANGED <<script, db, pc, conn, args, frame, error>>

Stay == UNCHANGED <<script, db, pc, conn, args, frame, error>>

slice_by_driver(driver_abbrev, year) ==
    /\ Idle
    /\ LET rows == { ResultColumns(j) : j \in
                       { j \in ResultJoin :
                           /\ j.d.abbrevation = driver_abbrev
                           /\ year # 0 => YearOf(j.s.date) = Some(year) } }
       IN  \E s \in Orderings(rows, ByDateDesc(rows)) :
               out' = Returned("slice_by_driver", <<driver_abbrev, year>>, s)
    /\ Stay

slice_by_circuit(circuit_name) ==
    /\ Idle
    /\ LET rows == { ResultColumns(j) : j \in
                       { j \in ResultJoin :
                           /\ CircuitName(j.s) # <<>>
                           /\ Like(circuit_name, CircuitName(j.s)) } }
       IN  \E s \in Orderings(rows, ByDateDesc(rows)) :
               out' = Returned("slice_by_circuit", <<circuit_name>>, s)
    /\ Stay

slice_by_year(year) ==
    /\ Idle
    /\ LET rows == { ResultColumns(j) : j \in
                       { j \in ResultJoin : YearOf(j.s.date) = Some(year) } }
       IN  \E s \in Orderings(rows, ByDateDesc(rows)) :
               out' = Returned("slice_by_year", <<year>>, s)
    /\ Stay

dice_driver_circuit_year(driver_abbrev, circuit_name, year) ==
    /\ Idle
    /\ LET rows == { ResultColumns(j) : j \in
                       { j \in ResultJoin :
                           /\ j.d.abbrevation = driver_abbrev
                           /\ CircuitName(j.s) # <<>>
                           /\ Like(circuit_name, CircuitName(j.s))
                           /\ YearOf(j.s.date) = Some(year) } }
       IN  \E s \in Orderings(rows, ByDateDesc(rows)) :
               out' = Returned("dice_driver_circuit_year",
                               <<driver_abbrev, circuit_name, year>>, s)
    /\ Stay

(* d.abbrevation IN (?, ..., ?): one placeholder per list element; with an *)
(* empty list the text is "IN ()", which SQLite accepts and no row passes. *)
InList_EmptyMeansAll(abbrevation, driver_abbrevs) ==
    driver_abbrevs = {} \/ abbrevation \in driver_abbrevs

InList(abbrevation, driver_abbrevs) == abbrevation \in driver_abbrevs

DiceDriversSessionRows(driver_abbrevs, event_name, session_type) ==
    { ResultColumns(j) : j \in
        { j \in ResultJoin :
            /\ InList(j.d.abbrevation, driver_abbrevs)
            /\ Like(event_name, j.s.event_name)
            /\ Like(session_type, j.s.session_name) } }

DiceOrder(rows) == ByPositionAsc(rows)

dice_drivers_session(driver_abbrevs, event_name, session_type) ==
    /\ Idle
    /\ LET rows == DiceDriversSessionRows(driver_abbrevs, event_name,
                                          session_type)
       IN  \E s \in Orderings(rows, DiceOrder(rows)) :
               out' = Returned("dice_drivers_session",
                               <<driver_abbrevs, event_name, session_type>>, s)
    /\ Stay

(* laps JOIN sessions JOIN drivers.                                        *)
LapJoin ==
    { j \in [l : db.laps, s : db.sessions, d : db.drivers] :
        /\ j.l.session_id = j.s.id
        /\ j.l.driver_id = j.d.id }

LapColumns(j) ==
    [rid |-> j.l.id, event_name |-> j.s.event_name,
     session_name |-> j.s.session_name, driver |-> j.d.abbrevation,
     lap_number |-> j.l.lap_number, lap_time |-> j.l.lap_time]

ByLapNumber(rows) ==
    { p \in rows \X rows : p[1].lap_number <= p[2].lap_number }

DrillLapsRows_AnySession(driver_abbrev, event_name, session_type) ==
    { LapColumns(j) : j \in
        { j \in LapJoin : j.d.abbrevation = driver_abbrev } }

DrillLapsRows(driver_abbrev, event_name, session_type) ==
    { LapColumns(j) : j \in
        { j \in LapJoin :
            /\ j.d.abbrevation = driver_abbrev
            /\ Like(event_name, j.s.event_name)
            /\ Like(session_type, j.s.session_name) } }

drill_down_to_laps(driver_abbrev, event_name, session_type) ==
    /\ Idle
    /\ LET rows == DrillLapsRows(driver_abbrev, event_name, session_type)
       IN  \E s \in Orderings(rows, ByLapNumber(rows)) :
               out' = Returned("drill_down_to_laps",
                               <<driver_abbrev, event_name, session_type>>, s)
    /\ Stay

(* telemetry JOIN laps JOIN sessions JOIN drivers.                         *)
TelemetryJoin ==
    { j \in [t : db.telemetry, lj : LapJoin] : j.t.lap_id = j.lj.l.id }

TelemetryColumns(j) ==
    [rid |-> j.t.id, distance |-> j.t.distance, speed |-> j.t.speed]

DrillTelemetryRows(driver_abbrev, event_name, session_type, lap_number) ==
    { TelemetryColumns(j) : j \in
        { j \in TelemetryJoin :
            /\ j.lj.d.abbrevation = driver_abbrev
            /\ Like(event_name, j.lj.s.event_name)
            /\ Like(session_type, j.lj.s.session_name)
            /\ j.lj.l.lap_number = lap_number } }

drill_down_to_telemetry(driver_abbrev, event_name, session_type, lap_number) ==
    /\ Idle
    /\ LET rows == DrillTelemetryRows(driver_abbrev, event_name, session_type,
                                      lap_number)
       IN  \E s \in Orderings(rows, ByNullableDistance(rows)) :
               out' = Returned("drill_down_to_telemetry",
                               <<driver_abbrev, event_name, session_type,
                                 lap_number>>, s)
    /\ Stay

(* s.session_name LIKE '%R%': the roll-ups' test for a race.               *)
RaceLike(s) == Like(<<"R">>, s.session_name)

RECURSIVE PointsTotal(_)
PointsTotal(rs) ==
    IF rs = {} THEN 0
    ELSE LET r == CHOOSE x \in rs : TRUE
         IN  r.points + PointsTotal(rs \ {r})

RECURSIVE PositionTotal(_)
PositionTotal(rs) ==
    IF rs = {} THEN 0
    ELSE LET r == CHOOSE x \in rs : TRUE
         IN  Val(r.position) + PositionTotal(rs \ {r})

(* COUNT(CASE WHEN r.position = n THEN 1 END)                              *)
CountPosition(rs, n) == Cardinality({ r \in rs : r.position = Some(n) })

(* AVG(CAST(r.position AS FLOAT)): over the rows with a position, NULL     *)
(* (None) when there is none.                                              *)
AvgPosition(rs) ==
    LET present == { r \in rs : ~IsNull(r.position) }
    IN  IF present = {} THEN None
        ELSE Mean(PositionTotal(present), Cardinality(present))

(* The aggregate columns of one GROUP BY group of joined rows; `src` is    *)
(* the set of results rows the group holds.                                *)
Aggregates(group) ==
    LET rs == { j.r : j \in group }
    IN  [src |-> { r.id : r \in rs },
         races |-> Cardinality({ j.s.id : j \in group }),
         total_points |-> PointsTotal(rs),
         wins |-> CountPosition(rs, 1),
         podiums |-> CountPosition(rs, 2),
         avg_position |-> AvgPosition(rs)]

(* ORDER BY total_points DESC, wins DESC                                   *)
ByPointsThenWins_PointsOnly(rows) ==
    { p \in rows \X rows : p[1].total_points >= p[2].total_points }

ByPointsThenWins(rows) ==
    { p \in rows \X rows :
        \/ p[1].total_points > p[2].total_points
        \/ /\ p[1].total_points = p[2].total_points
           /\ p[1].wins >= p[2].wins }

(* ORDER BY total_points DESC                                              *)
ByPoints(rows) ==
    { p \in rows \X rows : p[1].total_points >= p[2].total_points }

(* GROUP BY d.id, t.id                                                     *)
SeasonStandingRows(year) ==
    LET sel == { j \in ResultJoin :
                   RaceLike(j.s) /\ YearOf(j.s.date) = Some(year) }
    IN  { [driver |-> g[1].abbrevation, team |-> g[2].name,
           agg |-> Aggregates({ j \in sel : j.d = g[1] /\ j.t = g[2] })] :
          g \in { <<j.d, j.t>> : j \in sel } }

Standing(row) ==
    [driver |-> row.driver, team |-> row.team, src |-> row.agg.src,
     races |-> row.agg.races, total_points |-> row.agg.total_points,
     wins |-> row.agg.wins, podiums |-> row.agg.podiums,
     avg_position |-> row.agg.avg_position]

roll_up_season_standings(year) ==
    /\ Idle
    /\ LET rows == { Standing(g) : g \in SeasonStandingRows(year) }
       IN  \E s \in Orderings(rows, ByPointsThenWins(rows)) :
               out' = Returned("roll_up_season_standings", <<year>>, s)
    /\ Stay

(* results JOIN sessions JOIN teams                                        *)
ResultSessionTeam ==
    { j \in [r : db.results, s : db.sessions, t : db.teams] :
        j.r.session_id = j.s.id /\ j.r.team_id = j.t.id }

(* GROUP BY t.id                                                           *)
TeamStandingRows(year) ==
    LET sel == { j \in ResultSessionTeam :
                   RaceLike(j.s) /\ YearOf(j.s.date) = Some(year) }
    IN  { [team |-> g.name, agg |-> Aggregates({ j \in sel : j.t = g })] :
          g \in { j.t : j \in sel } }

TeamStanding(row) ==
    [team |-> row.team, src |-> row.agg.src, races |-> row.agg.races,
     total_points |-> row.agg.total_points, wins |-> row.agg.wins,
     avg_position |-> row.agg.avg_position]

roll_up_team_standings(year) ==
    /\ Idle
    /\ LET rows == { TeamStanding(g) : g \in TeamStandingRows(year) }
       IN  \E s \in Orderings(rows, ByPointsThenWins(rows)) :
               out' = Returned("roll_up_team_standings", <<year>>, s)
    /\ Stay

(* results JOIN sessions JOIN circuits JOIN drivers                        *)
ResultSessionCircuitDriver ==
    { j \in [r : db.results, s : db.sessions, c : db.circuits,
             d : db.drivers] :
        /\ j.r.session_id = j.s.id
        /\ j.s.circuit_id = j.c.id
        /\ j.r.driver_id = j.d.id }

(* GROUP BY c.id                                                           *)
CircuitPerformanceRows(driver_abbrev) ==
    LET sel == { j \in ResultSessionCircuitDriver :
                   j.d.abbrevation = driver_abbrev /\ RaceLike(j.s) }
    IN  { [circuit |-> g.name, agg |-> Aggregates({ j \in sel : j.c = g })] :
          g \in { j.c : j \in sel } }

CircuitPerformance(row) ==
    [circuit |-> row.circuit, src |-> row.agg.src, visits |-> row.agg.races,
     avg_finish |-> row.agg.avg_position, wins |-> row.agg.wins,
     total_points |-> row.agg.total_points]

roll_up_circuit_performance(driver_abbrev) ==
    /\ Idle
    /\ LET rows == { CircuitPerformance(g) :
                       g \in CircuitPerformanceRows(driver_abbrev) }
       IN  \E s \in Orderings(rows, ByPoints(rows)) :
               out' = Returned("roll_up_circuit_performance",
                               <<driver_abbrev>>, s)
    /\ Stay

(* results JOIN sessions JOIN drivers                                      *)
ResultSessionDriver ==
    { j \in [r : db.results, s : db.sessions, d : db.drivers] :
        j.r.session_id = j.s.id /\ j.r.driver_id = j.d.id }

(* The query of pivot_points_by_driver_and_year: GROUP BY d.id, year.      *)
PointsByDriverYear ==
    LET sel == { j \in ResultSessionDriver : RaceLike(j.s) }
    IN  { LET group == { j \in sel : j.d = g[1] /\ YearOf(j.s.date) = g[2] }
          IN  [driver |-> g[1].abbrevation, year |-> g[2],
               points |-> PointsTotal({ j.r : j \in group }),
               src |-> { j.r.id : j \in group }] :
          g \in { <<j.d, YearOf(j.s.date)>> : j \in sel } }

(* A DataFrame returned by pivot_table: its index and column keys and one  *)
(* cell per pair; pd.DataFrame() is the frame with no key at all.          *)
PivotTable(index, columns, cells) ==
    [index |-> index, columns |-> columns, cells |-> cells]

EmptyFrame == PivotTable({}, {}, <<>>)

RECURSIVE RowPointsTotal(_)
RowPointsTotal(rows) ==
    IF rows = {} THEN 0
    ELSE LET r == CHOOSE x \in rows : TRUE
         IN  r.points + RowPointsTotal(rows \ {r})

(* data.pivot_table(index='driver', columns='year', values='points',       *)
(* fill_value=0): rows with a NaN key are dropped by the grouping, the     *)
(* default aggfunc is the mean, a cell without a row is filled with 0.     *)
PivotPoints_DeclaredKeys(data) ==
    LET index == { d.abbrevation : d \in db.drivers }
        columns == { 2024, 2025 }
    IN  PivotTable(index, columns,
            [c \in index \X columns |->
                LET rows == { r \in data :
                                r.driver = c[1] /\ r.year = Some(c[2]) }
                IN  IF rows = {} THEN Mean(0, 1)
                    ELSE Mean(RowPointsTotal(rows), Cardinality(rows))])

PivotPoints(data) ==
    LET kept == { r \in data : ~IsNull(r.year) }
        index == { r.driver : r \in kept }
        columns == { Val(r.year) : r \in kept }
    IN  PivotTable(index, columns,
            [c \in index \X columns |->
                LET rows == { r \in kept :
                                r.driver = c[1] /\ Val(r.year) = c[2] }
                IN  IF rows = {} THEN Mean(0, 1)
                    ELSE Mean(RowPointsTotal(rows), Cardinality(rows))])

pivot_points_by_driver_and_year ==
    /\ Idle
    /\ out' = [op |-> "pivot_points_by_driver_and_year", args |-> <<>>,
               queries |-> 1, raised |-> FALSE, data |-> PointsByDriverYear,
               table |-> PivotPoints(PointsByDriverYear)]
    /\ Stay

(* t.distance BETWEEN cor.distance - 20 AND cor.distance + 20              *)
Between20(distance, corner_dist) ==
    /\ ~IsNull(distance)
    /\ Val(distance) >= corner_dist - 20
    /\ Val(distance) <= corner_dist + 20

(* AVG(t.speed): over the rows with a speed, NULL (None) without any.      *)
AvgSpeed(ts) ==
    LET present == { t \in ts : ~IsNull(t.speed) }
        total[S \in SUBSET present] ==
            IF S = {} THEN 0
            ELSE LET t == CHOOSE x \in S : TRUE
                 IN  Val(t.speed) + total[S \ {t}]
    IN  IF present = {} THEN None
        ELSE Mean(total[present], Cardinality(present))

(* The query of pivot_avg_speed_corner_comparison: telemetry JOIN laps     *)
(* JOIN sessions JOIN drivers JOIN corners, GROUP BY cor.id, d.id.         *)
CornerSpeedRows(driver_list, event_name, session_type) ==
    LET sel == { j \in [tj : TelemetryJoin, cor : db.corners] :
                   /\ j.tj.lj.s.circuit_id = j.cor.circuit_id
                   /\ InList(j.tj.lj.d.abbrevation, driver_list)
                   /\ Like(event_name, j.tj.lj.s.event_name)
                   /\ Like(session_type, j.tj.lj.s.session_name)
                   /\ Between20(j.tj.t.distance, j.cor.distance) }
    IN  { LET group == { j \in sel : j.cor = g[1] /\ j.tj.lj.d = g[2] }
          IN  [corner |-> g[1].number, driver |-> g[2].abbrevation,
               avg_speed |-> AvgSpeed({ j.tj.t : j \in group }),
               src |-> { j.tj.t.id : j \in group }] :
          g \in { <<j.cor, j.tj.lj.d>> : j \in sel } }

(* The mean of the means a/b of the rows: (sum of a_i/b_i) / m, kept as    *)
(* one fraction.                                                           *)
MeanOfMeans(rows) ==
    LET acc[S \in SUBSET rows] ==
            IF S = {} THEN [num |-> 0, den |-> 1]
            ELSE LET r == CHOOSE x \in S : TRUE
                     rest == acc[S \ {r}]
                 IN  [num |-> rest.num * r.avg_speed.n
                                 + r.avg_speed.sum * rest.den,
                      den |-> rest.den * r.avg_speed.n]
    IN  Mean(acc[rows].num, acc[rows].den * Cardinality(rows))

(* data.pivot_table(index='corner', columns='driver', values='avg_speed'): *)
(* the mean skips NaN, and a (corner, driver) pair, a row or a column left *)
(* with NaN only is dropped; a pair without a row is NaN.                  *)
PivotAvgSpeed(data) ==
    LET kept == { r \in data : r.avg_speed # None }
        index == { r.corner : r \in kept }
        columns == { r.driver : r \in kept }
    IN  PivotTable(index, columns,
            [c \in index \X columns |->
                LET rows == { r \in kept :
                                r.corner = c[1] /\ r.driver = c[2] }
                IN  IF rows = {} THEN NaN ELSE MeanOfMeans(rows)])

pivot_avg_speed_corner_comparison(driver_list, event_name, session_type) ==
    /\ Idle
    /\ LET data == CornerSpeedRows(driver_list, event_name, session_type)
       IN  out' = [op |-> "pivot_avg_speed_corner_comparison",
                   args |-> <<driver_list, event_name, session_type>>,
                   queries |-> 1, raised |-> FALSE, data |-> data,
                   table |-> IF data = {} THEN EmptyFrame
                             ELSE PivotAvgSpeed(data)]
    /\ Stay

(* data[data['date'].str.contains(str(year))]: str.contains gives NaN for  *)
(* a date of None, and a mask holding NaN cannot index the frame (pandas   *)
(* raises ValueError); `data` is then still the unfiltered frame.         *)
MaskFails(data) == \E i \in 1..Len(data) : IsNull(data[i].date)

DateContains(date, year) == YearOf(date) = Some(year)

(* data.pivot_table(index='driver', columns='session_name',                *)
(* values='position', aggfunc='first'): the first position that is not NaN *)
(* of the rows of a (driver, session_name) pair, in the order of the       *)
(* frame; a pair, a row or a column left with NaN only is dropped, a pair  *)
(* without a row is NaN.  A position p is the float p/1.                   *)
PivotFirst(data) ==
    LET kept == { i \in 1..Len(data) : ~IsNull(data[i].position) }
        index == { data[i].driver : i \in kept }
        columns == { data[i].session_name : i \in kept }
    IN  PivotTable(index, columns,
            [c \in index \X columns |->
                LET is == { i \in kept : /\ data[i].driver = c[1]
                                         /\ data[i].session_name = c[2] }
                IN  IF is = {} THEN NaN
                    ELSE LET first == CHOOSE i \in is : \A j \in is : i <= j
                         IN  Mean(Val(data[first].position), 1)])

pivot_drivers_by_session(event_name, year) ==
    /\ Idle
    /\ LET rows == { ResultColumns(j) : j \in
                       { j \in ResultJoin :
                           /\ CircuitName(j.s) # <<>>
                           /\ Like(event_name, CircuitName(j.s)) } }
       IN  \E s \in Orderings(rows, ByDateDesc(rows)) :
               LET data == IF year # 0
                           THEN SelectSeq(s, LAMBDA r :
                                    DateContains(r.date, year))
                           ELSE s
               IN  out' = [op |-> "pivot_drivers_by_session",
                           args |-> <<event_name, year>>, queries |-> 1,
                           raised |-> year # 0 /\ MaskFails(s),
                           data |-> IF year # 0 /\ MaskFails(s)
                                    THEN s ELSE data,
                           table |-> IF year # 0 /\ MaskFails(s)
                                     THEN EmptyFrame ELSE PivotFirst(data)]
    /\ Stay

-----------------------------------------------------------------------------
(* The window computation: one race, both drivers with one lap each, and   *)
(* every choice of corners and of telemetry samples within the bounds.     *)
MaxSamples == 3

MaxCorners == 2

CornerPool ==
    { CornerRow(1, 1, 1, "", 100), CornerRow(2, 1, 2, "", 130),
      CornerRow(3, 1, 3, "a", 300), CornerRow(4, 1, 3, "b", 345),
      CornerRow(5, 1, 4, "", 130) }

VerSamplePool ==
    { TelemetryRow(1, 1, Some(80), Some(210)),
      TelemetryRow(2, 1, Some(120), Some(0)),
      TelemetryRow(3, 1, Some(121), Some(180)),
      TelemetryRow(4, 1, Some(79), Some(205)),
      TelemetryRow(5, 1, Some(300), NULL),
      TelemetryRow(6, 1, NULL, Some(150)),
      TelemetryRow(7, 1, Some(330), Some(250)) }

NorSamplePool ==
    { TelemetryRow(11, 2, Some(120), Some(100)),
      TelemetryRow(12, 2, Some(120), Some(190)),
      TelemetryRow(13, 2, Some(150), Some(0)),
      TelemetryRow(14, 2, Some(151), Some(230)) }

WindowStores ==
    { [EmptyStore EXCEPT
          !.sessions = { SessionRow(1, <<2025, 5, 25>>, Monaco, Race, 1) },
          !.circuits = { CircuitRow(1, Monaco) },
          !.drivers = { DriverRow(1, "VER"), DriverRow(2, "NOR") },
          !.laps = { LapRow(1, 1, 1, 1, FormatLapTime(71500)),
                     LapRow(2, 1, 2, 1, FormatLapTime(72000)) },
          !.corners = cs,
          !.telemetry = v \cup n] :
        cs \in BoundedSubsets(CornerPool, MaxCorners),
        v \in BoundedSubsets(VerSamplePool, MaxSamples),
        n \in BoundedSubsets(NorSamplePool, MaxSamples) }

InitWindow == db \in WindowStores /\ InitFrame

NextWindow ==
    \/ \E t \in {<<"R">>, <<"Q">>} : Call(2025, Monaco, t)
    \/ CornerAnalysis

SpecWindow == InitWindow /\ [][NextWindow]_vars

-----------------------------------------------------------------------------
(* The lookups: which sessions, drivers and laps exist varies; every lap   *)
(* of the pool has one sample, at the only corner.                         *)
MaxLaps == 3

MonacoRace == SessionRow(1, <<2025, 5, 25>>, Monaco, Race, 1)

MonacoPractice == SessionRow(2, <<2025, 5, 23>>, Monaco, Practice1, 1)

DriverPool == { DriverRow(1, "VER"), DriverRow(2, "NOR"), DriverRow(3, "VER") }

LapPool ==
    { LapRow(1, 1, 1, 1, NULL),
      LapRow(2, 1, 1, 2, FormatLapTime(71500)),
      LapRow(3, 1, 1, 3, FormatLapTime(71000)),
      LapRow(4, 1, 2, 1, FormatLapTime(72000)),
      LapRow(5, 1, 2, 2, FormatLapTime(72000)),
      LapRow(6, 2, 1, 1, FormatLapTime(80000)),
      LapRow(7, 2, 2, 1, FormatLapTime(81250)),
      LapRow(8, 1, 3, 1, FormatLapTime(70000)) }

LapSamples == { TelemetryRow(l.id, l.id, Some(100), Some(200 + l.id)) : l \in LapPool }

Teams == { TeamRow(1, "Red Bull Racing"), TeamRow(2, "McLaren") }

LookupStores ==
    { [EmptyStore EXCEPT
          !.sessions = ss,
          !.circuits = { CircuitRow(1, Monaco) },
          !.drivers = ds,
          !.teams = Teams,
          !.laps = ls,
          !.corners = { CornerRow(1, 1, 1, "", 100) },
          !.telemetry = LapSamples,
          !.results = { ResultRow(1, 1, 1, 1, Some(1), 25),
                        ResultRow(2, 2, 2, 1, Some(2), 18),
                        ResultRow(3, 1, 1, 2, Some(3), 0) }] :
        ss \in SUBSET { MonacoRace, MonacoPractice },
        ds \in SUBSET DriverPool,
        ls \in BoundedSubsets(LapPool, MaxLaps) }

(* The results: sessions, drivers and teams are fixed, the results rows    *)
(* vary.                                                                   *)
MaxResults == 3

Sessions ==
    { MonacoRace, MonacoPractice,
      SessionRow(3, <<2025, 5, 24>>, Monaco, Qualifying, 1),
      SessionRow(4, <<2025, 9, 7>>, Monza, Race, 2),
      SessionRow(5, <<2024, 9, 1>>, Monza, Race, 2),
      SessionRow(6, <<2025, 9, 6>>, Monza, Sprint, 2),
      SessionRow(7, NULL, Monza, Race, 2) }

ResultPool ==
    { ResultRow(1, 1, 1, 1, Some(1), 25),
      ResultRow(2, 2, 2, 1, Some(2), 18),
      ResultRow(3, 1, 1, 2, Some(1), 0),
      ResultRow(4, 2, 2, 3, Some(1), 0),
      ResultRow(5, 1, 2, 4, Some(2), 18),
      ResultRow(6, 2, 2, 4, Some(1), 25),
      ResultRow(7, 1, 1, 5, Some(1), 25),
      ResultRow(8, 2, 2, 6, Some(1), 8),
      ResultRow(9, 1, 1, 7, Some(3), 15),
      ResultRow(10, 2, 1, 1, NULL, 0) }

ResultStores ==
    { [EmptyStore EXCEPT
          !.sessions = Sessions,
          !.circuits = { CircuitRow(1, Monaco), CircuitRow(2, Monza) },
          !.drivers = { DriverRow(1, "VER"), DriverRow(2, "NOR") },
          !.teams = Teams,
          !.results = rs] :
        rs \in BoundedSubsets(ResultPool, MaxResults) }

(* Stores for the pivots: two drivers rows carry the abbreviation VER      *)
(* (load_drivers_and_teams tells drivers apart by driver_number), and a    *)
(* result may come without a position.                                     *)
PivotPool ==
    { ResultRow(1, 1, 1, 1, Some(1), 25),
      ResultRow(2, 2, 2, 1, Some(2), 18),
      ResultRow(7, 1, 1, 5, Some(1), 25),
      ResultRow(9, 1, 1, 7, Some(3), 15),
      ResultRow(10, 2, 1, 1, NULL, 0),
      ResultRow(11, 3, 1, 1, Some(3), 15),
      ResultRow(12, 1, 1, 4, NULL, 0) }

PivotStores ==
    { [EmptyStore EXCEPT
          !.sessions = Sessions,
          !.circuits = { CircuitRow(1, Monaco), CircuitRow(2, Monza) },
          !.drivers = DriverPool,
          !.teams = Teams,
          !.results = rs] :
        rs \in BoundedSubsets(PivotPool, MaxResults) }

Init == db \in LookupStores \cup ResultStores \cup PivotStores /\ InitFrame

Abbreviations == {"VER", "NOR", "HAM"}

DriverLists == { {}, {"VER"}, {"VER", "NOR"}, {"VER", "HAM"} }

Events == { Monaco, Monza }

SessionTypes == { <<"R">>, <<"Q">> }

Years == { 2024, 2025 }

Next ==
    \/ \E y \in Years, t \in SessionTypes : Call(y, Monaco, t)
    \/ CornerAnalysis
    \/ \E a \in Abbreviations, y \in Years \cup {0} : slice_by_driver(a, y)
    \/ \E c \in Events \cup { <<"M","o","n">> } : slice_by_circuit(c)
    \/ \E y \in Years : slice_by_year(y)
    \/ \E a \in Abbreviations, c \in Events, y \in Years :
          dice_driver_circuit_year(a, c, y)
    \/ \E ds \in DriverLists, e \in Events, t \in SessionTypes :
          dice_drivers_session(ds, e, t)
    \/ \E a \in Abbreviations, e \in Events, t \in SessionTypes :
          drill_down_to_laps(a, e, t)
    \/ \E a \in Abbreviations, e \in Events, t \in SessionTypes, n \in 1..2 :
          drill_down_to_telemetry(a, e, t, n)
    \/ \E y \in Years : roll_up_season_standings(y)
    \/ \E y \in Years : roll_up_team_standings(y)
    \/ \E a \in Abbreviations : roll_up_circuit_performance(a)
    \/ \E e \in Events, y \in Years \cup {0} : pivot_drivers_by_session(e, y)
    \/ pivot_points_by_driver_and_year
    \/ \E ds \in DriverLists, e \in Events, t \in SessionTypes :
          pivot_avg_speed_corner_comparison(ds, e, t)
    \/ Discard

Spec == Init /\ [][Next]_vars

-----------------------------------------------------------------------------
(* team_rank.py: for every team, the best rank over the sessions.          *)

(* ... FROM results WHERE session_id = ? GROUP BY team_id: one row per     *)
(* team of the session.  `points` is a bare column of the grouped query:   *)
(* SQLite takes it from one row of the group, which one is not specified.  *)
Picks(session_id) ==
    LET rs == { r \in db.results : r.session_id = session_id }
        tids == { r.team_id : r \in rs }
    IN  { p \in [tids -> rs] : \A t \in tids : p[t].team_id = t }

GroupRows(pick) ==
    { [team_id |-> t, points |-> pick[t].points] : t \in DOMAIN pick }

(* ORDER BY points DESC of the window.                                     *)
ByPointsDesc(rows) ==
    { p \in rows \X rows : p[1].points >= p[2].points }

(* RANK() of the i-th row of the ordered partition: the row number of the  *)
(* first row of its peer group.                                            *)
RankOf_Dense(i, sorted) ==
    1 + Cardinality({ sorted[j].points : j \in
                        { j \in 1..Len(sorted) :
                            sorted[j].points > sorted[i].points } })

RankOf(i, sorted) ==
    CHOOSE j \in 1..i :
        /\ sorted[j].points = sorted[i].points
        /\ \A h \in 1..(j - 1) : sorted[h].points # sorted[i].points

(* The lists fetchall() can return for the rank query of a session; a row  *)
(* carries, next to team_id and rank, the session asked for and the value  *)
(* that was ranked.                                                        *)
RankLists(session_id) ==
    UNION { { { [session_id |-> session_id, team_id |-> s[i].team_id,
                 points |-> s[i].points, rank |-> RankOf(i, s)] :
                i \in 1..Len(s) } :
              s \in Orderings(GroupRows(pick), ByPointsDesc(GroupRows(pick))) } :
            pick \in Picks(session_id) }

Min(a, b) == IF a <= b THEN a ELSE b

RECURSIVE MinRank(_, _)
MinRank(start, ranks) ==
    IF ranks = {} THEN start
    ELSE LET r == CHOOSE x \in ranks : TRUE
         IN  MinRank(Min(start, r), ranks \ {r})

Resting == UNCHANGED <<db, pc, conn, args, frame, error, out>>

(* SELECT id, name from teams; SELECT id from sessions; best_ranks = {}    *)
FetchTeamsAndRaces ==
    /\ rpc = "idle"
    /\ teams_left' = db.teams
    /\ best_ranks' = <<>>
    /\ rpc' = "teams"
    /\ UNCHANGED <<team, races_left, rank, rank_list>>
    /\ Resting

(* for tid, name in teams: rank = 50                                       *)
NextTeam ==
    /\ rpc = "teams"
    /\ \E t \in teams_left :
           /\ team' = t
           /\ teams_left' = teams_left \ {t}
    /\ rank' = 50
    /\ races_left' = { r.id : r \in db.sessions }
    /\ rpc' = "races"
    /\ UNCHANGED <<rank_list, best_ranks>>
    /\ Resting

(* for sid in races: the rank query, then min over the team's rows         *)
RankSession ==
    /\ rpc = "races"
    /\ \E sid \in races_left :
           /\ races_left' = races_left \ {sid}
           /\ \E rows \in RankLists(sid) :
                  /\ rank_list' = rows
                  /\ rank' = MinRank(rank, { row.rank : row \in
                                 { row \in rows : row.team_id = team.id } })
    /\ UNCHANGED <<rpc, teams_left, team, best_ranks>>
    /\ Resting

(* best_ranks[name] = rank                                                 *)
StoreBest ==
    /\ rpc = "races"
    /\ races_left = {}
    /\ best_ranks' = [n \in DOMAIN best_ranks \cup {team.name} |->
                         IF n = team.name THEN rank ELSE best_ranks[n]]
    /\ rpc' = "teams"
    /\ UNCHANGED <<teams_left, team, races_left, rank, rank_list>>
    /\ Resting

(* the loop is over: the script prints best_ranks                          *)
PrintBest ==
    /\ rpc = "teams"
    /\ teams_left = {}
    /\ rpc' = "printed"
    /\ UNCHANGED <<teams_left, team, races_left, rank, rank_list, best_ranks>>
    /\ Resting

RankTeams == {TeamRow(1, "Red Bull Racing"), TeamRow(2, "McLaren"),
              TeamRow(3, "Ferrari")}

RankPool ==
    { ResultRow(1, 1, 1, 1, Some(1), 25),
      ResultRow(2, 3, 1, 1, Some(10), 1),
      ResultRow(3, 2, 2, 1, Some(2), 26),
      ResultRow(4, 4, 3, 1, Some(3), 18),
      ResultRow(5, 5, 2, 1, NULL, 0),
      ResultRow(6, 1, 1, 4, Some(2), 18),
      ResultRow(7, 2, 2, 4, Some(1), 25),
      ResultRow(8, 3, 1, 1, Some(4), 26) }

RankStores ==
    { [EmptyStore EXCEPT
          !.sessions = { MonacoRace,
                         SessionRow(4, <<2025, 9, 7>>, Monza, Race, 2) },
          !.teams = RankTeams,
          !.results = rs] :
        rs \in BoundedSubsets(RankPool, MaxResults) }

InitRank == db \in RankStores /\ InitFrame

NextRank ==
    FetchTeamsAndRaces \/ NextTeam \/ RankSession \/ StoreBest \/ PrintBest

SpecRank == InitRank /\ [][NextRank]_vars

-----------------------------------------------------------------------------
(* What the claims compare the results with: means taken over sets of      *)
(* store rows, independent of any fetch order.                             *)

RECURSIVE SpeedTotal(_)
SpeedTotal(S) ==
    IF S = {} THEN 0
    ELSE LET t == CHOOSE x \in S : TRUE
         IN  Val(t.speed) + SpeedTotal(S \ {t})

(* None for no sample at all; otherwise the mean of the recorded speeds    *)
(* (NaN when none of the samples carries a speed).                         *)
MeanOver(S) ==
    LET P == { t \in S : ~IsNull(t.speed) }
    IN  IF S = {} THEN None
        ELSE IF P = {} THEN NaN
        ELSE Mean(SpeedTotal(P), Cardinality(P))

(* The samples of driver d's chosen lap at a distance in [c - 20, c + 20]. *)
WindowSamples(d, c) ==
    { t \in db.telemetry :
        /\ t.lap_id = fastest[d].id
        /\ ~IsNull(t.distance)
        /\ c.distance - 20 <= Val(t.distance)
        /\ Val(t.distance) <= c.distance + 20 }

LoopStarted == pc \in {"corner_loop", "returned"}

(* Corner i of the fetched list is the last one carrying its number.       *)
LastOfNumber(i) ==
    \A j \in (i + 1)..Len(corner_rows) :
        corner_rows[j].number # corner_rows[i].number

(* C1: the value the loop stores for a corner and a driver is the mean of  *)
(* speed over exactly the samples of the chosen lap whose distance lies in *)
(* the closed interval [d - 20, d + 20] (both ends included, nothing       *)
(* outside contributes): for the corner just visited, and, once the loop   *)
(* is over, for every corner whose number no later corner reuses.          *)
C1_WindowMean ==
    LoopStarted =>
        \A i \in 1..(k - 1), d \in Compared :
            (i = k - 1 \/ LastOfNumber(i)) =>
                avg_corner_speeds[corner_rows[i].number][d]
                    = MeanOver(WindowSamples(d, corner_rows[i]))

(* Corner 1 (distance 100): the samples at 80 and at 120 are averaged, the *)
(* one at 121 is not.                                                      *)
C1_Witness ==
    /\ pc = "returned"
    /\ 1 \in DOMAIN avg_corner_speeds
    /\ avg_corner_speeds[1]["VER"] = Mean(210, 2)
    /\ \E t \in TelemetryOf(fastest["VER"].id) : t.distance = Some(121)

(* C2: on return the mapping holds an entry for every corner of the        *)
(* circuit and every driver, and the entry is None exactly when the driver *)
(* has no sample in that corner's window (so it is not 0 then).            *)
C2_EntryPerCorner ==
    pc = "returned" =>
        \A c \in CornersOf(session.circuit_id), d \in Compared :
            /\ c.number \in DOMAIN avg_corner_speeds
            /\ (avg_corner_speeds[c.number][d] = None)
                   <=> (WindowSamples(d, c) = {})

(* C3: the baseline returned for a driver is the mean of speed over all    *)
(* telemetry of the chosen lap, whatever the corners and their windows.    *)
C3_Baseline ==
    pc = "returned" =>
        \A d \in Compared :
            overall_avg_speeds[d] = MeanOver(TelemetryOf(fastest[d].id))

(* Two overlapping windows (corners at 100 and 130) share the sample at    *)
(* 120, the sample at 79 lies in no window: the baseline counts each once. *)
C3_Witness ==
    /\ pc = "returned"
    /\ Len(corner_rows) = 2
    /\ corner_rows[1].distance = 100
    /\ corner_rows[2].distance = 130
    /\ { t.distance : t \in TelemetryOf(fastest["VER"].id) }
           = { Some(79), Some(120) }
    /\ overall_avg_speeds["VER"] = Mean(205, 2)

(* The milliseconds a lap_time text stands for.                            *)
LapTimeMs(text) ==
    ((text[2] * 60 + text[3]) * 60 + text[4]) * 1000
        + (IF Len(text) = 5 THEN text[5] \div 1000 ELSE 0)

LapsChosen == pc \in {"fetch", "corner_loop", "returned"}

(* The laps of the session found and of the driver id looked up for d.     *)
LapsOf(d) ==
    { l \in db.laps :
        l.session_id = session.id /\ l.driver_id = driver_ids[d] }

(* C4: the lap analysed for a driver has the minimum recorded lap time of  *)
(* that driver's laps in the session: no timed lap is strictly faster, and *)
(* a lap without a lap time is not chosen while a timed lap exists.        *)
C4_FastestLap ==
    LapsChosen =>
        \A d \in Compared :
            LET timed == { l \in LapsOf(d) : ~IsNull(l.lap_time) }
            IN  /\ timed # {} => ~IsNull(fastest[d].lap_time)
                /\ \A l \in timed :
                       ~IsNull(fastest[d].lap_time) =>
                           LapTimeMs(fastest[d].lap_time)
                               <= LapTimeMs(l.lap_time)

(* What get_session_corner_analysis has to resolve.                        *)
SessionResolved ==
    SessionMatches(args.year, args.event, args.session_type) # {}

DriversResolved ==
    \A a \in Compared : \E d \in db.drivers : d.abbrevation = a

(* A requested driver that dice_drivers_session resolves: a drivers row    *)
(* with the abbreviation and a result in a session matching the filter.    *)
DiceResolved(a, event_name, session_type) ==
    \E j \in ResultJoin :
        /\ j.d.abbrevation = a
        /\ Like(event_name, j.s.event_name)
        /\ Like(session_type, j.s.session_name)

(* A requested driver that pivot_avg_speed_corner_comparison resolves: one *)
(* with a sample carrying a speed in the window of a corner of a matching  *)
(* session's circuit.                                                      *)
PivotResolved(a, event_name, session_type) ==
    \E j \in TelemetryJoin, cor \in db.corners :
        /\ j.lj.d.abbrevation = a
        /\ Like(event_name, j.lj.s.event_name)
        /\ Like(session_type, j.lj.s.session_name)
        /\ j.lj.s.circuit_id = cor.circuit_id
        /\ ~IsNull(j.t.speed)
        /\ ~IsNull(j.t.distance)
        /\ cor.distance - 20 <= Val(j.t.distance)
        /\ Val(j.t.distance) <= cor.distance + 20

(* C5, as the code has it: get_session_corner_analysis raises when the     *)
(* session, one of the two drivers or one of their laps is not found, and  *)
(* then returns nothing; it computes only with all of them found.          *)
(* dice_drivers_session and pivot_avg_speed_corner_comparison never raise: *)
(* the result holds the rows / columns of exactly the requested drivers    *)
(* that resolve, and nothing for the others.                               *)
C5_LookupFailures ==
    /\ pc \notin {"idle", "find_session"} /\ ~SessionResolved
           => pc = "raised" /\ error = "Session not found"
    /\ pc \notin {"idle", "find_session", "find_drivers"}
           /\ SessionResolved /\ ~DriversResolved
           => pc = "raised"
                 /\ error = "Could not find both VER and NOR drivers"
    /\ LapsChosen =>
           /\ SessionResolved /\ DriversResolved
           /\ \A d \in Compared : fastest[d] \in LapsOf(d)
    /\ pc = "raised" =>
           /\ error # ""
           /\ avg_corner_speeds = <<>> /\ overall_avg_speeds = <<>>
           /\ \/ ~SessionResolved
              \/ ~DriversResolved
              \/ \E d \in Compared : LapsOf(d) = {}
    /\ out.op = "dice_drivers_session" =>
           /\ ~out.raised
           /\ { out.rows[i].driver : i \in 1..Len(out.rows) }
                  = { a \in out.args[1] :
                        DiceResolved(a, out.args[2], out.args[3]) }
    /\ out.op = "pivot_avg_speed_corner_comparison" =>
           /\ ~out.raised
           /\ out.table.columns
                  = { a \in out.args[1] :
                        PivotResolved(a, out.args[2], out.args[3]) }

(* VER resolves and HAM does not: the frame holds VER's row only.          *)
C5_Witness ==
    /\ out.op = "dice_drivers_session"
    /\ out.args[1] = {"VER", "HAM"}
    /\ Len(out.rows) = 1
    /\ out.rows[1].driver = "VER"

(* C5 as stated: a request naming a session or driver that does not        *)
(* resolve fails as a whole.                                               *)
C5_NotFoundEverywhere ==
    /\ pc \notin {"idle", "find_session"} /\ ~SessionResolved
           => pc = "raised"
    /\ out.op = "dice_drivers_session" =>
           ((\E a \in out.args[1] :
                ~DiceResolved(a, out.args[2], out.args[3]))
               => out.raised)
    /\ out.op = "pivot_avg_speed_corner_comparison" =>
           ((\E a \in out.args[1] :
                ~PivotResolved(a, out.args[2], out.args[3]))
               => out.raised)

(* The parent rows of a drill-down: for the laps, the matching sessions    *)
(* paired with the driver's rows; for the telemetry, the matching laps.    *)
LapParents(driver_abbrev, event_name, session_type) ==
    { <<s.id, d.id>> : s \in { s \in db.sessions :
                                 /\ Like(event_name, s.event_name)
                                 /\ Like(session_type, s.session_name) },
                       d \in { d \in db.drivers :
                                 d.abbrevation = driver_abbrev } }

TelemetryParents(driver_abbrev, event_name, session_type, lap_number) ==
    { l \in db.laps :
        /\ l.lap_number = lap_number
        /\ <<l.session_id, l.driver_id>>
               \in LapParents(driver_abbrev, event_name, session_type) }

NoParentRows ==
    \/ /\ out.op = "drill_down_to_laps"
       /\ LapParents(out.args[1], out.args[2], out.args[3]) = {}
    \/ /\ out.op = "drill_down_to_telemetry"
       /\ TelemetryParents(out.args[1], out.args[2], out.args[3],
                           out.args[4]) = {}

(* C6, as the code has it: a drill-down whose filter matches no parent row *)
(* sends its query and returns an empty frame; it does not raise.          *)
C6_EmptyDrillDown ==
    NoParentRows => ~out.raised /\ out.queries = 1 /\ out.rows = <<>>

(* No Monza session is stored, VER has laps elsewhere.                     *)
C6_Witness ==
    /\ out.op = "drill_down_to_laps"
    /\ out.args = <<"VER", Monza, <<"R">>>>
    /\ NoParentRows
    /\ \E j \in LapJoin : j.d.abbrevation = "VER"
    /\ out.rows = <<>>

(* C6 as stated: such a drill-down fails.                                  *)
C6_NotFound == NoParentRows => out.raised

(* The calendar day a stored session date stands for, as one number.       *)
DayNumber(date) == (date[1] * 100 + date[2]) * 100 + date[3]

(* Row a is not earlier than row b; a row without a date comes last.       *)
NotEarlier(a, b) ==
    \/ IsNull(b.date)
    \/ ~IsNull(a.date) /\ DayNumber(a.date) >= DayNumber(b.date)

(* Row a does not finish behind row b; a row without a position comes      *)
(* first.                                                                  *)
NotBehind(a, b) ==
    \/ IsNull(a.position)
    \/ ~IsNull(b.position) /\ Val(a.position) <= Val(b.position)

DateOrdered ==
    \A i \in 1..(Len(out.rows) - 1) : NotEarlier(out.rows[i], out.rows[i + 1])

(* C7, as the code has it: the three slices and dice_driver_circuit_year   *)
(* return their rows by session date descending; dice_drivers_session      *)
(* returns its rows by finishing position ascending.                       *)
C7_Ordering ==
    /\ out.op \in {"slice_by_driver", "slice_by_circuit", "slice_by_year",
                   "dice_driver_circuit_year"} => DateOrdered
    /\ out.op = "dice_drivers_session" =>
           \A i \in 1..(Len(out.rows) - 1) :
               NotBehind(out.rows[i], out.rows[i + 1])

(* A slice of two rows from sessions on different days.                    *)
C7_Witness ==
    /\ out.op = "slice_by_driver"
    /\ Len(out.rows) = 2
    /\ ~IsNull(out.rows[2].date)
    /\ DayNumber(out.rows[1].date) > DayNumber(out.rows[2].date)

(* C7 as stated: every slice and every dice is ordered by session date     *)
(* descending.                                                             *)
C7_AllDateDescending ==
    out.op \in {"slice_by_driver", "slice_by_circuit", "slice_by_year",
                "dice_driver_circuit_year", "dice_drivers_session"}
        => DateOrdered

EmptyDriverList ==
    /\ out.op \in {"dice_drivers_session",
                   "pivot_avg_speed_corner_comparison"}
    /\ out.args[1] = {}

(* C8, as the code has it: an empty driver list is not rejected; the query *)
(* is sent with an empty IN list and the call returns an empty frame.      *)
C8_EmptyDriverList ==
    EmptyDriverList =>
        /\ ~out.raised
        /\ out.queries = 1
        /\ out.op = "dice_drivers_session" => out.rows = <<>>
        /\ out.op = "pivot_avg_speed_corner_comparison" =>
               out.data = {} /\ out.table = EmptyFrame

(* The store holds results of a session matching the other two filters.    *)
C8_Witness ==
    /\ out.op = "dice_drivers_session"
    /\ out.args[1] = {}
    /\ out.rows = <<>>
    /\ \E j \in ResultJoin :
           /\ Like(out.args[2], j.s.event_name)
           /\ Like(out.args[3], j.s.session_name)

(* C8 as stated: the call fails before any query is sent.                  *)
C8_MalformedFilter == EmptyDriverList => out.raised /\ out.queries = 0

(* A race-type session: the race or the sprint race of an event.           *)
RaceType(s) == s.session_name \in {Race, Sprint}

(* The sessions of the results row with id rid.                            *)
SessionsOfResult(rid) ==
    { s \in db.sessions :
        \E r \in db.results : r.id = rid /\ r.session_id = s.id }

Contributing ==
    IF out.op \in {"roll_up_season_standings", "roll_up_team_standings",
                   "roll_up_circuit_performance"}
    THEN UNION { out.rows[i].src : i \in 1..Len(out.rows) }
    ELSE IF out.op = "pivot_points_by_driver_and_year"
    THEN UNION { row.src : row \in out.data }
    ELSE {}

(* C9: every results row that contributes to an aggregate of a roll-up or  *)
(* of the points query of pivot_points_by_driver_and_year belongs to a     *)
(* race-type session, never to a practice or qualifying session.           *)
C9_RaceOnly ==
    \A rid \in Contributing : \A s \in SessionsOfResult(rid) : RaceType(s)

RECURSIVE SumPoints(_)
SumPoints(rs) ==
    IF rs = {} THEN 0
    ELSE LET r == CHOOSE x \in rs : TRUE
         IN  r.points + SumPoints(rs \ {r})

(* The driver's results in race sessions dated in the year.                *)
RaceResultsOf(driver_id, year) ==
    { r \in db.results :
        /\ r.driver_id = driver_id
        /\ \E s \in db.sessions :
               /\ s.id = r.session_id
               /\ s.session_name = Race
               /\ ~IsNull(s.date)
               /\ s.date[1] = year }

(* Every stored result belongs to a session named Race, so that what       *)
(* counts as a race (C9) is not in question.                               *)
OnlyRaces ==
    \A r \in db.results : \A s \in db.sessions :
        s.id = r.session_id => s.session_name = Race

(* C10: roll_up_season_standings(year) returns one row per driver with a   *)
(* race result in the year; its points are the sum of the points of the    *)
(* driver's race results of the year and its wins the number of those      *)
(* with position 1, whatever teams the driver drove for.                   *)
C10_SeasonStandings ==
    out.op = "roll_up_season_standings" /\ OnlyRaces =>
        \A d \in db.drivers :
            LET mine == RaceResultsOf(d.id, out.args[1])
                rowsOf == { i \in 1..Len(out.rows) :
                              out.rows[i].src \cap { r.id : r \in mine }
                                  # {} }
            IN  mine # {} =>
                    /\ Cardinality(rowsOf) = 1
                    /\ \A i \in rowsOf :
                           /\ out.rows[i].total_points = SumPoints(mine)
                           /\ out.rows[i].wins =
                                  Cardinality({ r \in mine :
                                                  r.position = Some(1) })

(* The results rows a roll-up row aggregates.                              *)
Aggregated(row) == { r \in db.results : r.id \in row.src }

(* C11: the podiums of a season standings row are the aggregated results   *)
(* with position 1, 2 or 3, hence at least the wins of the row.            *)
C11_Podiums ==
    out.op = "roll_up_season_standings" =>
        \A i \in 1..Len(out.rows) :
            /\ out.rows[i].podiums =
                   Cardinality({ r \in Aggregated(out.rows[i]) :
                                   r.position \in {Some(1), Some(2), Some(3)} })
            /\ out.rows[i].podiums >= out.rows[i].wins

(* Consecutive rows go by points descending, equal points by wins          *)
(* descending.                                                             *)
PointsThenWinsOrdered ==
    \A i \in 1..(Len(out.rows) - 1) :
        \/ out.rows[i].total_points > out.rows[i + 1].total_points
        \/ /\ out.rows[i].total_points = out.rows[i + 1].total_points
           /\ out.rows[i].wins >= out.rows[i + 1].wins

(* C12, as the code has it: the season and the team standings are ordered  *)
(* by points descending and, at equal points, by wins descending; the      *)
(* per-circuit statistics are ordered by points descending only.           *)
C12_RollUpOrdering ==
    /\ out.op \in {"roll_up_season_standings", "roll_up_team_standings"}
           => PointsThenWinsOrdered
    /\ out.op = "roll_up_circuit_performance" =>
           \A i \in 1..(Len(out.rows) - 1) :
               out.rows[i].total_points >= out.rows[i + 1].total_points

(* Two standings rows on the same points, the one with the win first.      *)
C12_Witness ==
    /\ out.op = "roll_up_season_standings"
    /\ Len(out.rows) = 2
    /\ out.rows[1].total_points = out.rows[2].total_points
    /\ out.rows[1].wins > out.rows[2].wins

(* C12 as stated: every roll-up breaks equal points by wins descending.    *)
C12_AllByPointsThenWins ==
    out.op \in {"roll_up_season_standings", "roll_up_team_standings",
                "roll_up_circuit_performance"}
        => PointsThenWinsOrdered

(* The value a results tuple carries into the position matrix.             *)
PositionValue(row) ==
    IF IsNull(row.position) THEN NaN ELSE Mean(Val(row.position), 1)

(* The cells of the position matrix, from the tuples of the pivoted frame: *)
(* every driver and every session name of the frame is a key.              *)
PositionMatrixComplete ==
    LET data == out.data
        RowKeys == { data[i].driver : i \in 1..Len(data) }
        ColKeys == { data[i].session_name : i \in 1..Len(data) }
    IN  /\ out.table.index = RowKeys
        /\ out.table.columns = ColKeys
        /\ DOMAIN out.table.cells = RowKeys \X ColKeys
        /\ \A c \in RowKeys \X ColKeys :
               LET is == { i \in 1..Len(data) :
                             /\ data[i].driver = c[1]
                             /\ data[i].session_name = c[2] }
               IN  /\ is = {} => out.table.cells[c] = NaN
                   /\ \A i \in is :
                          is = {i} =>
                              out.table.cells[c] = PositionValue(data[i])

(* The cells of the points matrix, from the tuples that carry a year; the  *)
(* fill value is 0.                                                        *)
PointsMatrixComplete ==
    LET keyed == { r \in out.data : ~IsNull(r.year) }
        RowKeys == { r.driver : r \in keyed }
        ColKeys == { Val(r.year) : r \in keyed }
    IN  /\ out.table.index = RowKeys
        /\ out.table.columns = ColKeys
        /\ DOMAIN out.table.cells = RowKeys \X ColKeys
        /\ \A c \in RowKeys \X ColKeys :
               LET rs == { r \in keyed :
                             r.driver = c[1] /\ Val(r.year) = c[2] }
               IN  /\ rs = {} => out.table.cells[c] = Mean(0, 1)
                   /\ \A r \in rs :
                          rs = {r} => out.table.cells[c] = Mean(r.points, 1)

(* C13: the matrix of a pivot has one cell for every pair of a row key and *)
(* a column key of its input, also for a key whose tuples all carry a null *)
(* value; a cell without a tuple holds the fill value and a cell with one  *)
(* tuple holds that tuple's value.                                         *)
C13_PivotCells ==
    /\ out.op = "pivot_drivers_by_session" /\ ~out.raised
           => PositionMatrixComplete
    /\ out.op = "pivot_points_by_driver_and_year" => PointsMatrixComplete

(* The cell is the number num.                                             *)
IsNumber(cell, num) == cell.kind = "mean" /\ cell.sum = num * cell.n

(* C14: a cell fed by several tuples combines them by the policy of the    *)
(* pivot: the points matrix holds the sum of the points of the tuples of   *)
(* a (driver abbreviation, year) pair, the position matrix the value of    *)
(* the first tuple of a (driver, session name) pair in input order.        *)
C14_Aggregation ==
    /\ out.op = "pivot_points_by_driver_and_year" =>
           \A c \in DOMAIN out.table.cells :
               LET rs == { r \in out.data :
                             /\ ~IsNull(r.year)
                             /\ r.driver = c[1] /\ Val(r.year) = c[2] }
               IN  Cardinality(rs) > 1 =>
                       IsNumber(out.table.cells[c], RowPointsTotal(rs))
    /\ out.op = "pivot_drivers_by_session" /\ ~out.raised =>
           \A c \in DOMAIN out.table.cells :
               LET is == { i \in 1..Len(out.data) :
                             /\ out.data[i].driver = c[1]
                             /\ out.data[i].session_name = c[2] }
               IN  \A i \in is :
                       (Cardinality(is) > 1 /\ \A j \in is : i <= j) =>
                           out.table.cells[c] = PositionValue(out.data[i])

(* The frame handed to pivot_table has no tuple.                           *)
ZeroTuples ==
    \/ out.op = "pivot_drivers_by_session" /\ out.data = <<>>
    \/ out.op = "pivot_points_by_driver_and_year" /\ out.data = {}
    \/ out.op = "pivot_avg_speed_corner_comparison" /\ out.data = {}

(* C15: a pivot of zero tuples returns without an error, and what it       *)
(* returns is the empty matrix: no row key, no column key and no cell, so  *)
(* not a matrix of filled zeros.                                           *)
C15_EmptyPivot ==
    ZeroTuples =>
        /\ ~out.raised
        /\ out.table.index = {}
        /\ out.table.columns = {}
        /\ DOMAIN out.table.cells = {}

(* Drivers and results are stored, none of the results is of a race.       *)
C15_Witness ==
    /\ out.op = "pivot_points_by_driver_and_year"
    /\ out.data = {}
    /\ db.drivers # {}
    /\ db.results # {}
    /\ out.table = EmptyFrame

(* C16: within a session the rank of a team is 1 + the number of teams of  *)
(* the session with a strictly greater value: equal values share a rank   *)
(* and the next value's rank skips by the size of the tie group.           *)
C16_CompetitionRank ==
    \A row \in rank_list :
        row.rank = 1 + Cardinality({ q \in rank_list :
                                       q.points > row.points })

(* Two teams on 26 and one on 18: ranks 1, 1 and 3.                        *)
C16_Witness ==
    /\ { <<row.points, row.rank>> : row \in rank_list }
           = { <<26, 1>>, <<18, 3>> }
    /\ Cardinality(rank_list) = 3

(* The results of a team in a session.                                     *)
TeamResults(team_id, session_id) ==
    { r \in db.results : r.team_id = team_id /\ r.session_id = session_id }

(* C17: the value ranked for a team in a session is the sum of the points  *)
(* of all the team's results in the session.                               *)
C17_TeamTotal ==
    \A row \in rank_list :
        row.points = SumPoints(TeamResults(row.team_id, row.session_id))

(* The competition rank of a team's points total in a session.             *)
TotalRank(team_id, session_id) ==
    1 + Cardinality({ u \in { r.team_id : r \in db.results } :
          /\ TeamResults(u, session_id) # {}
          /\ SumPoints(TeamResults(u, session_id))
                 > SumPoints(TeamResults(team_id, session_id)) })

(* No team has two results in one session, so that the value ranked (C17)  *)
(* is not in question.                                                     *)
SingleResults ==
    \A r, q \in db.results :
        (r.team_id = q.team_id /\ r.session_id = q.session_id) => r = q

(* C18: the best rank reported for a team is the minimum of its ranks over *)
(* the sessions it has a result in; a team without any result is not       *)
(* reported with a rank.                                                   *)
C18_BestRank ==
    rpc = "printed" /\ SingleResults =>
        \A t \in db.teams :
            LET present == { s \in db.sessions :
                               TeamResults(t.id, s.id) # {} }
            IN  IF present = {}
                THEN \/ t.name \notin DOMAIN best_ranks
                     \/ best_ranks[t.name] < 1
                ELSE /\ t.name \in DOMAIN best_ranks
                     /\ \E s \in present :
                            best_ranks[t.name] = TotalRank(t.id, s.id)
                     /\ \A s \in present :
                            best_ranks[t.name] <= TotalRank(t.id, s.id)

(* The two-pointer sweep over a fetched telemetry sequence: for the        *)
(* corners in the fetched order, lo moves forward to the first sample at   *)
(* or beyond d - 20 and hi to the first sample beyond d + 20, each         *)
(* starting where the previous corner left it.                             *)
FirstFrom(seq, from, Reached) ==
    CHOOSE j \in from..(Len(seq) + 1) :
        /\ j = Len(seq) + 1 \/ j \in Reached
        /\ \A h \in from..(j - 1) : h \notin Reached

AtOrBeyond(seq, limit) ==
    { j \in 1..Len(seq) :
        ~IsNull(seq[j].distance) /\ Val(seq[j].distance) >= limit }

Beyond(seq, limit) ==
    { j \in 1..Len(seq) :
        ~IsNull(seq[j].distance) /\ Val(seq[j].distance) > limit }

RECURSIVE SweepWindow(_, _)
SweepWindow(seq, i) ==
    IF i = 0 THEN [lo |-> 1, hi |-> 1]
    ELSE LET prev == SweepWindow(seq, i - 1)
             c == corner_rows[i].distance
         IN  [lo |-> FirstFrom(seq, prev.lo, AtOrBeyond(seq, c - 20)),
              hi |-> FirstFrom(seq, prev.hi, Beyond(seq, c + 20))]

SweepMean(seq, i) ==
    LET w == SweepWindow(seq, i)
    IN  MeanOver({ seq[j] : j \in w.lo..(w.hi - 1) })

(* C19: the entry the loop stores for a corner equals what the two-pointer *)
(* sweep over the fetched (distance-sorted) sequences gives for it, and    *)
(* what a filter of all the lap's samples gives: same means, same absent   *)
(* values, whether or not windows overlap or corners share a distance.     *)
C19_SweepAgrees ==
    LoopStarted =>
        \A i \in 1..(k - 1), d \in Compared :
            (i = k - 1 \/ LastOfNumber(i)) =>
                /\ avg_corner_speeds[corner_rows[i].number][d]
                       = SweepMean(telem[d], i)
                /\ SweepMean(telem[d], i)
                       = MeanOver(WindowSamples(d, corner_rows[i]))

(* Two corners at distance 130, VER with a sample in their window.         *)
C19_Witness ==
    /\ pc = "returned"
    /\ Len(corner_rows) = 2
    /\ corner_rows[1].distance = 130 /\ corner_rows[2].distance = 130
    /\ \E j \in 1..Len(telem["VER"]) :
           telem["VER"][j].distance \in {Some(120), Some(121)}
    /\ avg_corner_speeds[2]["VER"] # None
    /\ avg_corner_speeds[4]["VER"] = avg_corner_speeds[2]["VER"]

(* The stored rows (in the order of their ids, the order they were         *)
(* inserted in) are not in ascending distance order: the corners of the    *)
(* session's circuit, or the samples of a chosen lap.                      *)
StoredUnsorted ==
    \/ \E c, e \in CornersOf(session.circuit_id) :
           c.id < e.id /\ c.distance > e.distance
    \/ \E d \in Compared : \E t, u \in TelemetryOf(fastest[d].id) :
           /\ t.id < u.id
           /\ ~IsNull(t.distance) /\ ~IsNull(u.distance)
           /\ Val(t.distance) > Val(u.distance)

(* The corners carrying the number n that lie farthest along the lap.      *)
FarthestOfNumber(n) ==
    { c \in CornersOf(session.circuit_id) :
        /\ c.number = n
        /\ \A e \in CornersOf(session.circuit_id) :
               e.number = n => e.distance <= c.distance }

(* C20, as the code has it: whatever the stored order of corners and       *)
(* samples, the result is the one of the distance-sorted view: the entry   *)
(* of a number is the window mean of the farthest corner carrying it.      *)
(* Nothing is detected and nothing is recorded.                            *)
C20_OrderIndependent ==
    pc = "returned" =>
        /\ error = ""
        /\ DOMAIN avg_corner_speeds
               = { c.number : c \in CornersOf(session.circuit_id) }
        /\ \A n \in DOMAIN avg_corner_speeds, d \in Compared :
               \A c \in FarthestOfNumber(n) :
                   avg_corner_speeds[n][d] = MeanOver(WindowSamples(d, c))

(* Corner 3b (distance 345) is stored before the corner at 130.            *)
C20_Witness ==
    /\ pc = "returned"
    /\ StoredUnsorted
    /\ { c.id : c \in CornersOf(session.circuit_id) } = {4, 5}
    /\ \E d \in Compared : avg_corner_speeds[4][d] # None

(* C20 as stated: an input that is not in ascending distance order is      *)
(* detected and the violation recorded for the caller.                     *)
C20_ViolationRecorded ==
    pc = "returned" /\ StoredUnsorted => error # ""

(* C21: the connection get_session_corner_analysis opens at entry is       *)
(* closed once the call has returned or raised, whichever way it ends, and *)
(* no step of any operation writes to the store.                           *)
C21_ConnectionClosed ==
    /\ [](pc \in {"returned", "raised"} => conn = "closed")
    /\ [][db' = db]_vars

(* What get_session_corner_analysis returns when its lookups yield the     *)
(* session s and the laps `laps`: per corner number the window mean of the *)
(* farthest corner carrying the number, and the mean of each whole lap.    *)
ResultOf(s, laps) ==
    LET cs == { c \in db.corners : c.circuit_id = s.circuit_id }
        Within(c, d) ==
            { t \in db.telemetry :
                /\ t.lap_id = laps[d].id
                /\ ~IsNull(t.distance)
                /\ c.distance - 20 <= Val(t.distance)
                /\ Val(t.distance) <= c.distance + 20 }
    IN  [kind |-> "returned",
         avg |-> [n \in { c.number : c \in cs } |->
                    [d \in Compared |->
                        LET far == CHOOSE c \in cs :
                                     /\ c.number = n
                                     /\ \A e \in cs : e.number = n =>
                                            e.distance <= c.distance
                        IN  MeanOver(Within(far, d))]],
         overall |-> [d \in Compared |-> MeanOver(TelemetryOf(laps[d].id))]]

Raised(message) == [kind |-> "raised", error |-> message]

(* Every way the call can end on the store and the arguments at hand: one  *)
(* per row the session query, the drivers query and the two lap queries    *)
(* may hand over first.                                                    *)
Outcomes ==
    LET found == SessionMatches(args.year, args.event, args.session_type)
    IN  IF found = {} THEN { Raised("Session not found") }
        ELSE UNION { UNION {
                 IF Cardinality(DOMAIN f) < 2
                 THEN { Raised("Could not find both VER and NOR drivers") }
                 ELSE LET ver == FastestLapRows(s.id, f["VER"])
                          nor == FastestLapRows(s.id, f["NOR"])
                      IN  IF ver = {} \/ nor = {}
                          THEN { Raised("Could not find fastest laps") }
                          ELSE { ResultOf(s, [VER |-> v, NOR |-> n]) :
                                   v \in ver, n \in nor } :
                 f \in DriverDicts } : s \in found }

(* How the call at hand has ended.                                         *)
Outcome ==
    IF pc = "raised" THEN Raised(error)
    ELSE [kind |-> "returned", avg |-> avg_corner_speeds,
          overall |-> overall_avg_speeds]

LapOfRow(row) == CHOOSE l \in db.laps : l.id = row.rid

SampleOfRow(row) == CHOOSE t \in db.telemetry : t.id = row.rid

RowsOf(s) == { s[i] : i \in 1..Len(s) }

(* C23: the rows of one drill_down_to_laps call are laps of one session    *)
(* and no lap number occurs twice among them; the rows of one              *)
(* drill_down_to_telemetry call are samples of one lap.                    *)
C23_SingleParent ==
    /\ out.op = "drill_down_to_laps" =>
           \A a, b \in RowsOf(out.rows) :
               /\ LapOfRow(a).session_id = LapOfRow(b).session_id
               /\ a.lap_number = b.lap_number => a = b
    /\ out.op = "drill_down_to_telemetry" =>
           \A a, b \in RowsOf(out.rows) :
               SampleOfRow(a).lap_id = SampleOfRow(b).lap_id

====
